---- MODULE Spec2Model ----
(***************************************************************************)
(* A model of pyehm/utils.py: the EHMNet hypothesis network (add_node,     *)
(* add_edge, get_parents, nodes_forward), the validation / likelihood      *)
(* matrix builder and the track clusterer gen_clusters.                    *)
(*                                                                         *)
(* Four specifications share the module's variables:                       *)
(*   Spec       an EHMNet built as EHMNet([root], v) and then driven by    *)
(*              add_node / add_edge calls;                                 *)
(*   SpecEdges  the same, the constructor also being given an edges dict;  *)
(*   SpecClu    gen_clusters applied to a validation matrix;               *)
(*   SpecMat    calc_validation_and_likelihood_matrices applied to         *)
(*              tracks, detections and hypotheses.                         *)
(***************************************************************************)
EXTENDS Integers, Sequences, FiniteSets, TLC

\* ---------------------------------------------------------------- bounds
\* EHMNetNode objects that exist (in or out of the network): 0..NumNodes-1
NumNodes == 2
\* detection indices labelling edges: 0..MaxDet
MaxDet == 1
\* node layers: 0..MaxLayer
MaxLayer == 1
\* number of add_node / add_edge calls made on one network
MaxCalls == 2

Node == 0 .. (NumNodes - 1)
Det == 0 .. MaxDet
Layers == 0 .. MaxLayer
None == "None"

VARIABLES
    \* ---- EHMNet
    nodes,      \* self._nodes: the node list, in insertion order
    layer,      \* node.layer of every node object
    ind,        \* node.ind of every node object (None until set)
    edges,      \* self.edges: insertion-ordered dict (parent, child) -> set of detections
    parents_per_detection,   \* dict (node, detection) -> set of parents
    children_per_detection,  \* dict (parent, detection) -> set of children
    outcome,    \* how the last call ended: "none" (no call yet), "ok" (returned)
    last,       \* the last call: its name, arguments, and what held before it
    calls,      \* number of calls made
    \* ---- gen_clusters
    v_matrix,   \* the validation matrix passed in
    clusters,   \* the returned list of Cluster objects (rows, cols)
    unassoc_rows,  \* the returned list of unassociated rows
    cluPc,      \* "idle" (not in use), "call" (before), "done" (returned)
    \* ---- calc_validation_and_likelihood_matrices
    num_tracks, \* len(tracks); track i is the key of hypotheses[i]
    detections, \* the detections sequence
    hypotheses, \* per track, its sequence of hypotheses
    matResult,  \* what the call gave: status and the two matrices
    matPc       \* "idle", "call", "done"

netVars == <<nodes, layer, ind, edges, parents_per_detection,
             children_per_detection, outcome, last, calls>>
cluVars == <<v_matrix, clusters, unassoc_rows, cluPc>>
matVars == <<num_tracks, detections, hypotheses, matResult, matPc>>

vars == <<netVars, cluVars, matVars>>

\* the parts of the state a specification does not use
CluIdle ==
    /\ v_matrix = None /\ clusters = <<>> /\ unassoc_rows = <<>> /\ cluPc = "idle"
MatIdle ==
    /\ num_tracks = 0 /\ detections = <<>> /\ hypotheses = <<>>
    /\ matResult = [status |-> "none"] /\ matPc = "idle"
NetIdle ==
    /\ nodes = <<>> /\ layer = <<>> /\ ind = <<>> /\ edges = <<>>
    /\ parents_per_detection = <<>> /\ children_per_detection = <<>>
    /\ outcome = "none" /\ last = [op |-> "none"] /\ calls = 0

\* ------------------------------------------------------- python dict / set
\* An insertion-ordered dict is a sequence of [key, val] records with
\* distinct keys.
HasKey(d, k) == \E i \in DOMAIN d : d[i].key = k

KeyIndex(d, k) == CHOOSE i \in DOMAIN d : d[i].key = k

\* d[k]
DictGet(d, k) == d[KeyIndex(d, k)].val

\* d[k] = v : an existing key keeps its position, a new key goes last
DictSet(d, k, v) ==
    IF HasKey(d, k)
    THEN [d EXCEPT ![KeyIndex(d, k)] = [key |-> k, val |-> v]]
    ELSE Append(d, [key |-> k, val |-> v])

\* the lookup dicts are never iterated: a function from the keys present
LookupSet(f, k, v) == [x \in (DOMAIN f) \cup {k} |-> IF x = k THEN v ELSE f[x]]

\* if k in d: d[k].add(x) else: d[k] = {x}      (on an ordered dict)
DictAddTo(d, k, x) ==
    IF HasKey(d, k) THEN DictSet(d, k, DictGet(d, k) \cup {x})
    ELSE DictSet(d, k, {x})

\* if k in f: f[k].add(x) else: f[k] = {x}      (on a lookup dict)
LookupAddTo(f, k, x) ==
    IF k \in DOMAIN f THEN LookupSet(f, k, f[k] \cup {x})
    ELSE LookupSet(f, k, {x})

EmptyLookup == [x \in {} |-> {}]

\* ------------------------------------------------------------------ EHMNet
\* for n_i, node in enumerate(nodes): node.ind = n_i
EnumerateInd(ns) ==
    [n \in Node |->
        IF \E i \in DOMAIN ns : ns[i] = n
        THEN (CHOOSE i \in DOMAIN ns :
                 ns[i] = n /\ \A j \in DOMAIN ns : ns[j] = n => j <= i) - 1
        ELSE None]

\* EHMNet.__init__(nodes, validation_matrix, edges)
NetInit(ns, es) ==
    /\ layer \in [Node -> Layers]
    /\ nodes = ns
    /\ ind = EnumerateInd(ns)
    /\ edges = es
    /\ parents_per_detection = EmptyLookup
    /\ children_per_detection = EmptyLookup
    /\ outcome = "none"
    /\ last = [op |-> "none"]
    /\ calls = 0

InNet(n) == \E i \in DOMAIN nodes : nodes[i] = n

Call(op, parent, child, detection) ==
    [op |-> op, parent |-> parent, child |-> child, detection |-> detection,
     parentIn |-> InNet(parent), childIn |-> InNet(child),
     again |-> /\ last.op = op
               /\ last.parent = parent
               /\ last.child = child
               /\ last.detection = detection]

\* the node list after add_edge, were add_edge to insert the child it is given
AddEdgeNodesInsert(ns, parent, child) == Append(ns, child)

\* the node list after add_edge: add_edge never touches it
AddEdgeNodes(ns, parent, child) == ns

\* EHMNet.add_node(node, parent, detection)
add_node(node, parent, detection) ==
    /\ calls < MaxCalls
    /\ ind' = [ind EXCEPT ![node] = Len(nodes)]
    /\ nodes' = Append(nodes, node)
    /\ edges' = DictSet(edges, <<parent, node>>, {detection})
    /\ parents_per_detection' =
           LookupSet(parents_per_detection, <<node, detection>>, {parent})
    /\ children_per_detection' =
           LookupAddTo(children_per_detection, <<parent, detection>>, node)
    /\ outcome' = "ok"
    /\ last' = Call("add_node", parent, node, detection)
    /\ calls' = calls + 1
    /\ UNCHANGED <<layer, cluVars, matVars>>

\* EHMNet.add_edge(parent, child, detection)
add_edge(parent, child, detection) ==
    /\ calls < MaxCalls
    /\ edges' = DictAddTo(edges, <<parent, child>>, detection)
    /\ parents_per_detection' =
           LookupAddTo(parents_per_detection, <<child, detection>>, parent)
    /\ children_per_detection' =
           LookupAddTo(children_per_detection, <<parent, detection>>, child)
    /\ nodes' = AddEdgeNodes(nodes, parent, child)
    /\ outcome' = "ok"
    /\ last' = Call("add_edge", parent, child, detection)
    /\ calls' = calls + 1
    /\ UNCHANGED <<layer, ind, cluVars, matVars>>

\* EHMNet.get_parents(node), on a given edges dict
GetParentsOf(es, node) ==
    LET hits == SelectSeq(es, LAMBDA e : e.key[2] = node)
    IN  [i \in DOMAIN hits |-> hits[i].key[1]]

get_parents(node) == GetParentsOf(edges, node)

\* add_node is given "a new node" (its docstring): an object not in the list
AddNode == \E node \in Node, parent \in Node, detection \in Det :
               /\ ~InNet(node)
               /\ add_node(node, parent, detection)

AddEdge == \E parent \in Node, child \in Node, detection \in Det :
               add_edge(parent, child, detection)

\* EHMNet.nodes_forward: sorted(self.nodes, key=lambda x: x.layer); the sort
\* is stable, so it is the nodes of layer 0 in list order, then layer 1, ...
RECURSIVE SortedFrom(_, _)
SortedFrom(ns, l) ==
    IF l > MaxLayer THEN <<>>
    ELSE SelectSeq(ns, LAMBDA n : layer[n] = l) \o SortedFrom(ns, l + 1)

NodesUnsorted(ns) == ns

SortedByLayer(ns) == SortedFrom(ns, 0)

nodes_forward == SortedByLayer(nodes)

\* EHMNet([root], validation_matrix): the network as the builders create it
Init == NetInit(<<0>>, <<>>) /\ CluIdle /\ MatIdle

Next == AddNode \/ AddEdge

Spec == Init /\ [][Next]_vars

\* EHMNet(nodes, validation_matrix, edges): an edges dict is supplied
SuppliedEdges ==
    {<<>>} \cup {<<[key |-> <<0, 1>>, val |-> {d}]>> : d \in Det}

InitEdges ==
    /\ \E ns \in {<<0>>, <<0, 1>>}, es \in SuppliedEdges : NetInit(ns, es)
    /\ CluIdle /\ MatIdle

SpecEdges == InitEdges /\ [][Next]_vars

\* ------------------------------------------------------------ gen_clusters
\* tracks (rows) of a validation matrix: 0..MaxTracks-1 at most
MaxTracks == 3
\* detection columns of a validation matrix besides the null column
MaxCols == 2

\* a matrix is its shape and its entries, indexed from 0 as in numpy
Matrix(n, m, f) == [shape |-> <<n, m>>, at |-> f]

BoolMatrices(n, m) ==
    {Matrix(n, m, f) : f \in [(0 .. (n - 1)) \X (0 .. (m - 1)) -> BOOLEAN]}

\* the elements of a set of integers in ascending order
RECURSIVE Ascending(_)
Ascending(S) ==
    IF S = {} THEN <<>>
    ELSE LET lo == CHOOSE x \in S : \A y \in S : x <= y
         IN  <<lo>> \o Ascending(S \ {lo})

\* v_matrix[:, 1:]
DropNullColumn(v) ==
    Matrix(v.shape[1], v.shape[2] - 1,
           [ij \in (0 .. (v.shape[1] - 1)) \X (0 .. (v.shape[2] - 2)) |->
               v.at[<<ij[1], ij[2] + 1>>]])

\* np.flatnonzero(m[:, col_ind]) and np.flatnonzero(m[row_ind, :])
FlatnonzeroCol(m, col) ==
    Ascending({i \in 0 .. (m.shape[1] - 1) : m.at[<<i, col>>]})
FlatnonzeroRow(m, row) ==
    Ascending({j \in 0 .. (m.shape[2] - 1) : m.at[<<row, j>>]})

Range(seq) == {seq[i] : i \in DOMAIN seq}

\* to_edges, were it to pair the elements off two by two
to_edges_pairs(lst) ==
    [k \in 1 .. (Len(lst) \div 2) |-> <<lst[2 * k - 1], lst[2 * k]>>]

\* to_edges(lst): [a, b, c, d] -> (a, b), (b, c), (c, d)
to_edges(lst) == [k \in 1 .. (Len(lst) - 1) |-> <<lst[k], lst[k + 1]>>]

\* nx.Graph: its nodes in insertion order, its undirected edges
EmptyGraph == [nodes |-> <<>>, edges |-> {}]

\* G.add_nodes_from(part)
RECURSIVE add_nodes_from(_, _)
add_nodes_from(G, part) ==
    IF part = <<>> THEN G
    ELSE add_nodes_from(
            IF Head(part) \in Range(G.nodes) THEN G
            ELSE [G EXCEPT !.nodes = Append(@, Head(part))],
            Tail(part))

\* G.add_edges_from(pairs): an edge also adds the endpoints it is missing
RECURSIVE add_edges_from(_, _)
add_edges_from(G, pairs) ==
    IF pairs = <<>> THEN G
    ELSE LET e == Head(pairs)
             H == add_nodes_from(G, e)
         IN  add_edges_from([H EXCEPT !.edges = @ \cup {{e[1], e[2]}}],
                            Tail(pairs))

\* to_graph(lst)
RECURSIVE to_graph_from(_, _)
to_graph_from(G, lst) ==
    IF lst = <<>> THEN G
    ELSE to_graph_from(
            add_edges_from(add_nodes_from(G, Head(lst)), to_edges(Head(lst))),
            Tail(lst))

to_graph(lst) == to_graph_from(EmptyGraph, lst)

\* networkx _plain_bfs: the nodes reachable from those of S
RECURSIVE PlainBfs(_, _)
PlainBfs(G, S) ==
    LET T == S \cup {n \in Range(G.nodes) :
                        \E s \in S : {s, n} \in G.edges}
    IN  IF T = S THEN S ELSE PlainBfs(G, T)

\* networkx connected_components(G): for each node, in the graph's node
\* order, not yet seen, the component it is in
RECURSIVE ComponentsFrom(_, _, _)
ComponentsFrom(G, k, seen) ==
    IF k > Len(G.nodes) THEN <<>>
    ELSE IF G.nodes[k] \in seen THEN ComponentsFrom(G, k + 1, seen)
    ELSE LET c == PlainBfs(G, {G.nodes[k]})
         IN  <<c>> \o ComponentsFrom(G, k + 1, seen \cup c)

connected_components(G) == ComponentsFrom(G, 1, {})

\* unassoc_rows, were the associated rows not taken out of it
UnassocKeepAll(all_rows, assoc_rows) == all_rows

\* unassoc_rows = unassoc_rows - assoc_rows
UnassocRows(all_rows, assoc_rows) == all_rows \ assoc_rows

\* list(a_set): the elements once each, in an order the set decides
ListsOf(S) ==
    {f \in [1 .. Cardinality(S) -> S] : \A i, j \in DOMAIN f : f[i] = f[j] => i = j}

\* the clusters gen_clusters(v) returns
ClustersOf(v) ==
    LET v_matrix_true == DropNullColumn(v)
        num_cols == v_matrix_true.shape[2]
        v_lists == [c \in 1 .. num_cols |-> FlatnonzeroCol(v_matrix_true, c - 1)]
        cluster_rows == connected_components(to_graph(v_lists))
    IN  [k \in DOMAIN cluster_rows |->
            [rows |-> cluster_rows[k],
             cols |-> UNION {{j + 1 : j \in Range(FlatnonzeroRow(v_matrix_true, r))}
                                : r \in cluster_rows[k]}]]

\* the set of unassociated rows gen_clusters(v) returns the list of
UnassocOf(v) ==
    LET cs == ClustersOf(v)
    IN  UnassocRows(0 .. (v.shape[1] - 1),
                    UNION {cs[k].rows : k \in DOMAIN cs})

\* gen_clusters(v_matrix)
gen_clusters ==
    /\ cluPc = "call"
    /\ clusters' = ClustersOf(v_matrix)
    /\ unassoc_rows' \in ListsOf(UnassocOf(v_matrix))
    /\ cluPc' = "done"
    /\ UNCHANGED <<v_matrix, netVars, matVars>>

InitClu ==
    /\ \E n \in 0 .. MaxTracks, m \in 0 .. MaxCols :
           v_matrix \in BoolMatrices(n, m + 1)
    /\ clusters = <<>>
    /\ unassoc_rows = <<>>
    /\ cluPc = "call"
    /\ NetIdle /\ MatIdle

NextClu == gen_clusters

SpecClu == InitClu /\ [][NextClu]_vars

\* ------------------------------- calc_validation_and_likelihood_matrices
\* tracks passed in: 0..MaxMatTracks-1 at most
MaxMatTracks == 2
\* hypotheses passed in, over all tracks
MaxHyps == 2
\* detection objects that exist: 0..MaxDetId; any of them may be passed in
MaxDetId == 1
\* hypothesis weights: 0..MaxWeight
MaxWeight == 1

DetIds == 0 .. MaxDetId
Weights == 0 .. MaxWeight
StopIteration == "StopIteration"

\* a hypothesis: its measurement (<<>>: a missed detection, the null
\* hypothesis, which is falsy; <<d>>: the detection d) and its weight
MissedDetection == <<>>
Hyps == [measurement : {MissedDetection} \cup {<<d>> : d \in DetIds},
         weight : Weights]

\* the detections sequences: distinct detection objects in any order
DetLists ==
    UNION {{f \in [1 .. k -> DetIds] : \A i, j \in 1 .. k : f[i] = f[j] => i = j}
              : k \in 0 .. (MaxDetId + 1)}

\* the hypotheses dicts of n tracks holding MaxHyps hypotheses at most: the
\* hypotheses are listed with their track, and each track gets its own in order
HypLists(n) ==
    UNION {[1 .. k -> [track : 0 .. (n - 1), hyp : Hyps]] : k \in 0 .. MaxHyps}

HypDict(n, lst) ==
    [t \in 0 .. (n - 1) |->
        LET own == SelectSeq(lst, LAMBDA e : e.track = t)
        IN  [i \in DOMAIN own |-> own[i].hyp]]

\* the index of the first detection equal to d, from 0
IndexOf(dets, d) ==
    (CHOOSE i \in DOMAIN dets :
        dets[i] = d /\ \A j \in DOMAIN dets : dets[j] = d => i <= j) - 1

\* next(...) given a default of -1 for a detection that is not found
FirstIndexOrDefault(dets, d) ==
    IF \E i \in DOMAIN dets : dets[i] = d
    THEN [raised |-> FALSE, j |-> IndexOf(dets, d)]
    ELSE [raised |-> FALSE, j |-> -1]

\* next(d_i for d_i, detection in enumerate(detections)
\*      if hyp.measurement == detection): raises StopIteration if there is none
FirstIndex(dets, d) ==
    IF \E i \in DOMAIN dets : dets[i] = d
    THEN [raised |-> FALSE, j |-> IndexOf(dets, d)]
    ELSE [raised |-> TRUE, j |-> 0]

\* np.zeros((num_tracks, num_detections + 1))
Zeros(n, m) == Matrix(n, m, [ij \in (0 .. (n - 1)) \X (0 .. (m - 1)) |-> 0])

\* the loops' state: the likelihood matrix so far, and whether an exception
\* has ended them
Running(L) == [raised |-> FALSE, L |-> L]
Raised(L) == [raised |-> TRUE, L |-> L]

\* the body of the inner loop, for the hypothesis hyp of track i
ApplyHyp(L, i, hyp, dets) ==
    IF hyp.measurement = MissedDetection
    THEN Running([L EXCEPT !.at[<<i, 0>>] = hyp.weight])
    ELSE LET found == FirstIndex(dets, hyp.measurement[1])
         IN  IF found.raised THEN Raised(L)
             ELSE Running([L EXCEPT !.at[<<i, found.j + 1>>] = hyp.weight])

\* for hyp in hypotheses[track], from the k-th on
RECURSIVE ApplyHyps(_, _, _, _, _)
ApplyHyps(st, i, hyps, k, dets) ==
    IF st.raised \/ k > Len(hyps) THEN st
    ELSE ApplyHyps(ApplyHyp(st.L, i, hyps[k], dets), i, hyps, k + 1, dets)

\* for i, track in enumerate(tracks), from track i on
RECURSIVE ApplyTracks(_, _, _, _, _)
ApplyTracks(st, i, n, hyp_dict, dets) ==
    IF st.raised \/ i >= n THEN st
    ELSE ApplyTracks(ApplyHyps(st, i, hyp_dict[i], 1, dets), i + 1, n, hyp_dict, dets)

\* likelihood_matrix > 0
GreaterThanZero(L) ==
    Matrix(L.shape[1], L.shape[2], [ij \in DOMAIN L.at |-> L.at[ij] > 0])

\* what a call that raised gives: the exception and no matrices
Failed == [status |-> StopIteration]

\* what calc_validation_and_likelihood_matrices gives
CalcResult(n, dets, hyp_dict) ==
    LET st == ApplyTracks(Running(Zeros(n, Len(dets) + 1)), 0, n, hyp_dict, dets)
    IN  IF st.raised THEN Failed
        ELSE [status |-> "ok", validation |-> GreaterThanZero(st.L),
              likelihood |-> st.L]

\* calc_validation_and_likelihood_matrices(tracks, detections, hypotheses)
calc_validation_and_likelihood_matrices ==
    /\ matPc = "call"
    /\ matResult' = CalcResult(num_tracks, detections, hypotheses)
    /\ matPc' = "done"
    /\ UNCHANGED <<num_tracks, detections, hypotheses, netVars, cluVars>>

InitMat ==
    /\ num_tracks \in 0 .. MaxMatTracks
    /\ detections \in DetLists
    /\ \E lst \in HypLists(num_tracks) : hypotheses = HypDict(num_tracks, lst)
    /\ matResult = [status |-> "none"]
    /\ matPc = "call"
    /\ NetIdle /\ CluIdle

NextMat == calc_validation_and_likelihood_matrices

SpecMat == InitMat /\ [][NextMat]_vars

\* ------------------------------------------------------- claims: EHMNet
Occurs(seq, n) == \E i \in DOMAIN seq : seq[i] = n

FirstPos(seq, n) ==
    CHOOSE i \in DOMAIN seq : seq[i] = n /\ \A j \in DOMAIN seq : seq[j] = n => i <= j

IsPrefix(a, b) == Len(a) <= Len(b) /\ \A i \in DOMAIN a : a[i] = b[i]

Called == last.op \in {"add_node", "add_edge"}

\* the endpoints of the last call that were not in the node list before it
AbsentEndpoints ==
    (IF last.parentIn THEN {} ELSE {last.parent})
        \cup (IF last.op = "add_edge" /\ ~last.childIn THEN {last.child} ELSE {})

\* C4: add_edge is idempotent: a second add_edge with the same parent, child
\* and detection leaves edges, both lookup indexes and the node list as the
\* first call left them.
C4_AddEdgeIdempotent ==
    [][(last'.op = "add_edge" /\ last'.again)
          => /\ edges' = edges
             /\ parents_per_detection' = parents_per_detection
             /\ children_per_detection' = children_per_detection
             /\ nodes' = nodes]_vars

\* a second identical add_edge call has just returned
C4_Witness == last.op = "add_edge" /\ last.again

\* C5: right after add_node(newNode, parent, detection), newNode not having
\* been in the node list, get_parents(newNode) is the one-element sequence
\* holding the supplied parent.
C5_ParentsOfNewNode ==
    (last.op = "add_node" /\ ~last.childIn)
        => get_parents(last.child) = <<last.parent>>

\* C6 as claimed, read on the edges the interface is meant for (two distinct
\* nodes, both in the node list): the parent of every such edge occurs at
\* an earlier position than the child in nodes_forward.
C6_ParentBeforeChild ==
    \A e \in DOMAIN edges :
        LET p == edges[e].key[1]
            c == edges[e].key[2]
        IN  (p # c /\ InNet(p) /\ InNet(c)) =>
                \E i, j \in DOMAIN nodes_forward :
                    i < j /\ nodes_forward[i] = p /\ nodes_forward[j] = c

\* C6 as amended: nodes_forward is the node list in ascending layer, equal
\* layers in insertion order; so for every edge whose endpoints are both in
\* the node list, a parent of a strictly lower layer has all its occurrences
\* before all of its child's, and a parent of the child's layer that was
\* inserted first occurs first.
C6_LayeredParentBeforeChild ==
    \A e \in DOMAIN edges :
        LET p == edges[e].key[1]
            c == edges[e].key[2]
        IN  (InNet(p) /\ InNet(c)) =>
              /\ Occurs(nodes_forward, p) /\ Occurs(nodes_forward, c)
              /\ layer[p] < layer[c] =>
                    \A i, j \in DOMAIN nodes_forward :
                        (nodes_forward[i] = p /\ nodes_forward[j] = c) => i < j
              /\ (layer[p] = layer[c] /\ FirstPos(nodes, p) < FirstPos(nodes, c))
                    => FirstPos(nodes_forward, p) < FirstPos(nodes_forward, c)

\* an edge from a lower-layer parent to a child that was inserted before it:
\* the sort has to move the parent forward
C6_Witness ==
    /\ Called
    /\ \E e \in DOMAIN edges :
          LET p == edges[e].key[1]
              c == edges[e].key[2]
          IN  /\ InNet(p) /\ InNet(c)
              /\ layer[p] < layer[c]
              /\ FirstPos(nodes, c) < FirstPos(nodes, p)

\* C7: add_node with a parent outside the node list, and add_edge with a
\* parent or child outside it, end in a StructuralViolation, and the absent
\* endpoint is not put into the node list.
C7_AbsentEndpointRejected ==
    (Called /\ AbsentEndpoints # {})
        => /\ outcome = "StructuralViolation"
           /\ \A n \in AbsentEndpoints : ~InNet(n)

\* d labels the edge (p, c)
EdgeHas(p, c, d) == HasKey(edges, <<p, c>>) /\ d \in DictGet(edges, <<p, c>>)

\* C9: the edge map and the two lookup indexes agree: d is in edges[(p, c)]
\* iff p is in parents_per_detection[(c, d)] iff c is in
\* children_per_detection[(p, d)].
C9_IndexesAgree ==
    \A p \in Node, c \in Node, d \in Det :
        /\ EdgeHas(p, c, d) <=>
              (<<c, d>> \in DOMAIN parents_per_detection
                  /\ p \in parents_per_detection[<<c, d>>])
        /\ EdgeHas(p, c, d) <=>
              (<<p, d>> \in DOMAIN children_per_detection
                  /\ c \in children_per_detection[<<p, d>>])

\* C10: every add_node or add_edge step only grows the network: the node
\* list is a prefix of the new one, and every edge label set and every lookup
\* entry is a subset of the same entry afterwards.
C10_OnlyGrows ==
    [][/\ IsPrefix(nodes, nodes')
       /\ \A i \in DOMAIN edges :
             /\ HasKey(edges', edges[i].key)
             /\ edges[i].val \subseteq DictGet(edges', edges[i].key)
       /\ \A k \in DOMAIN parents_per_detection :
             /\ k \in DOMAIN parents_per_detection'
             /\ parents_per_detection[k] \subseteq parents_per_detection'[k]
       /\ \A k \in DOMAIN children_per_detection :
             /\ k \in DOMAIN children_per_detection'
             /\ children_per_detection[k] \subseteq children_per_detection'[k]]_vars

\* ------------------------------------------------- claims: gen_clusters
Rows == 0 .. (v_matrix.shape[1] - 1)
NonNullCols == 1 .. (v_matrix.shape[2] - 1)

\* column col (not the null column) is valid for track t
Valid(t, col) == v_matrix.at[<<t, col>>]

\* t and u are gated by one detection
Share(t, u) == \E col \in NonNullCols : Valid(t, col) /\ Valid(u, col)

\* the tracks a chain of tracks, each sharing a detection with the next,
\* links to those of S
RECURSIVE LinkedTo(_)
LinkedTo(S) ==
    LET T == S \cup {u \in Rows : \E t \in S : Share(t, u)}
    IN  IF T = S THEN S ELSE LinkedTo(T)

SameCluster(t, u) ==
    \E k \in DOMAIN clusters : t \in clusters[k].rows /\ u \in clusters[k].rows

\* C1: the clusters' track sets and the unassociated rows cover every row
\* index 0..numTracks-1 and are pairwise disjoint.
C1_ClustersPartitionTracks ==
    cluPc = "done" =>
        /\ UNION {clusters[k].rows : k \in DOMAIN clusters}
               \cup Range(unassoc_rows) = Rows
        /\ \A k1, k2 \in DOMAIN clusters :
               k1 # k2 => clusters[k1].rows \cap clusters[k2].rows = {}
        /\ \A k \in DOMAIN clusters :
               clusters[k].rows \cap Range(unassoc_rows) = {}
        /\ \A i, j \in DOMAIN unassoc_rows :
               unassoc_rows[i] = unassoc_rows[j] => i = j

\* two clusters and an unassociated track have been returned
C1_Witness ==
    cluPc = "done" /\ Len(clusters) >= 2 /\ Len(unassoc_rows) >= 1

\* C2: two tracks that each have a valid non-null column are in one cluster
\* iff a chain of tracks, each sharing a detection with the next, links
\* them; and no non-null column is valid for tracks of two clusters.
C2_ClustersAreLinkClasses ==
    cluPc = "done" =>
        /\ \A t, u \in Rows :
               (Share(t, t) /\ Share(u, u)) =>
                   (SameCluster(t, u) <=> u \in LinkedTo({t}))
        /\ \A k1, k2 \in DOMAIN clusters, col \in NonNullCols :
               k1 # k2 =>
                   ~ /\ \E t \in clusters[k1].rows : Valid(t, col)
                     /\ \E u \in clusters[k2].rows : Valid(u, col)

\* a cluster holds two tracks that share no detection: only a chain through
\* a third track links them
C2_Witness ==
    /\ cluPc = "done"
    /\ \E t, u \in Rows : t # u /\ SameCluster(t, u) /\ ~Share(t, u)

\* ------------------- claims: calc_validation_and_likelihood_matrices
\* track t has a non-null hypothesis whose detection was not passed in
HasAbsentDetection(t) ==
    \E k \in DOMAIN hypotheses[t] :
        /\ hypotheses[t][k].measurement # MissedDetection
        /\ hypotheses[t][k].measurement[1] \notin Range(detections)

\* C3: in every validation matrix returned, column 0 (the null hypothesis)
\* is true in every row.
C3_NullColumnTrue ==
    (matPc = "done" /\ matResult.status = "ok") =>
        \A t \in 0 .. (num_tracks - 1) : matResult.validation.at[<<t, 0>>]

\* C8: whenever some track has a non-null hypothesis whose detection is not
\* in the detections sequence, the call fails (the failed search raises) and
\* returns no matrices.
C8_AbsentDetectionFails ==
    (matPc = "done" /\ \E t \in 0 .. (num_tracks - 1) : HasAbsentDetection(t)) =>
        /\ matResult.status = StopIteration
        /\ DOMAIN matResult = {"status"}

\* the call was made with a hypothesis of an absent detection that comes
\* after a hypothesis the loop could record
C8_Witness ==
    /\ matPc = "done"
    /\ \E t \in 0 .. (num_tracks - 1) :
          /\ Len(hypotheses[t]) >= 2
          /\ hypotheses[t][1].measurement # MissedDetection
          /\ hypotheses[t][1].measurement[1] \in Range(detections)
          /\ hypotheses[t][1].weight > 0
          /\ hypotheses[t][2].measurement # MissedDetection
          /\ hypotheses[t][2].measurement[1] \notin Range(detections)

====
